---- MODULE Spec2Model ----
(***************************************************************************)
(* Model of the token-eater backend, socket.io server: the in-memory games *)
(* registry, the per-connection closure (gameId, playerId) and the three   *)
(* handlers join / move / disconnect, together with the settlement calls   *)
(* (handleFoodEat, handleUserEat, webhook fetch) and the 'state'           *)
(* broadcasts each handler issues.                                         *)
(***************************************************************************)
EXTENDS Integers, Sequences, FiniteSets, TLC

\* ------------------------------------------------------------------ bounds
MaxJoins == 3
\* settlement calls made in one run
MaxCalls == 2
\* calls the moves of one run start: a food eaten (two calls) and a player eaten
MaxSettleCalls == 3

\* ------------------------------------------------------- program constants
FoodBatchSize == 20
BaseRadius == 10
SpawnX == 500
SpawnY == 500
MaxFoodScore == 10

\* --------------------------------------------------------------- inputs
Conns == {1, 2}
GameIds == {"g1"}
\* the draws of Math.random a join may see: in batch 1 every id holds a letter,
\* batch 3 is batch 1 with ids made of digits for the player and for food item 3
Batches == {1, 3}
\* draws that put items 2..20 of the batch next to the spawn point
RespawnBatches == {2}
\* draws that put items 1..19 of the batch on one point, with scores of 80 in
\* all, and item 20 (score 1) far from it
TouchBatches == {4}
Undefined == "undefined"
\* the walletAddress values a join message of connection c may carry
WalletNames == <<"0xA", "0xB", "0xC", "0xD", "0xE", "0xF">>
WalletsOf(c) == {Undefined, "", WalletNames[c]}
Names == {"n"}
\* positions a move message may carry
MovePos == { <<500, 500>>, <<524, 531>>, <<478, 500>> }
\* positions a move message may carry where the batch of TouchBatches lies:
\* the point of items 1..19, and a point 20 left of and 99 above item 20
TouchMovePos == { <<495, 515>>, <<1600, 921>> }
\* positions a move message to the ws server may carry
WsMovePos == { <<500, 500>>, <<524, 532>>, <<478, 500>> }

Null == "null"
NoPlayer == 0

\* ------------------------------------------------------------ state
VARIABLES
    games,     \* registry: gameId -> [players, food], both in property order
    conn,      \* per connection closure: [status, gameId, playerId]
    rooms,     \* socket.io rooms: gameId -> set of connections
    idCount,   \* number of ids genId has produced
    joins,     \* number of accepted joins so far
    ev,        \* the last handler run and what it emitted
    ledger,    \* the TokenPool contract: [shares, depositors, totalDeposits, depositsAs]
    ledger0,   \* the contract's state when the server started
    tasks,     \* the settlement calls made so far, each with its position
    wsGames,   \* ws server: registry gameId -> session object
    wsHeap,    \* ws server: the session objects allocated so far
    wsConn,    \* ws server: per connection closure [status, gameId, g, playerId]
    wsIdCount, \* ws server: number of ids genId has produced
    wsEv       \* ws server: the last handler run and what it sent

\* the state of the socket.io server
gameVars == <<games, conn, rooms, idCount, joins, ev>>

\* the state lib.ts works on
settleVars == <<ledger, ledger0, tasks>>

\* the state of the ws server
wsVars == <<wsGames, wsHeap, wsConn, wsIdCount, wsEv>>

vars == <<games, conn, rooms, idCount, joins, ev, ledger, ledger0, tasks,
          wsGames, wsHeap, wsConn, wsIdCount, wsEv>>

\* ------------------------------------------------------------ helpers
Put(f, k, v) == [x \in (DOMAIN f) \cup {k} |-> IF x = k THEN v ELSE f[x]]

Remove(f, k) == [x \in (DOMAIN f) \ {k} |-> f[x]]

EmptyMap == [x \in {} |-> 0]

\* obj[id] on an object kept as its entries in property order
Ids(seq) == {seq[i].id : i \in 1..Len(seq)}

Get(seq, id) == seq[CHOOSE i \in 1..Len(seq) : seq[i].id = id]

\* delete obj[id]
Delete(seq, id) == SelectSeq(seq, LAMBDA e : e.id # id)

RECURSIVE SumScores(_, _)
SumScores(seq, i) ==
    IF i > Len(seq) THEN 0 ELSE seq[i].score + SumScores(seq, i + 1)

\* ------------------------------------------------------------ ids
\* genId() is Math.random().toString(36).slice(2, 10).  An id that holds a
\* letter is named by the ordinal n of its draw; an id made of digits only
\* (no leading zero) is named by the number it spells, 10000000 at least for
\* eight digits.  d is the draw: Letters, or that number.
IndexBase == 10000000

Letters == 0

genId(n, d) == IF d = Letters THEN n ELSE d

\* a property key that is a canonical array index
IsArrayIndex(id) == id >= IndexBase

\* obj[e.id] = e.  The order in which Object.keys / values / entries list an
\* object: array indices first, ascending, then the other keys in the order
\* of their creation; a key already there keeps its place.
SetKey(seq, e) ==
    IF e.id \in Ids(seq)
    THEN [i \in 1..Len(seq) |-> IF seq[i].id = e.id THEN e ELSE seq[i]]
    ELSE IF IsArrayIndex(e.id)
    THEN LET n == Cardinality({i \in 1..Len(seq) :
                                  IsArrayIndex(seq[i].id) /\ seq[i].id < e.id})
         IN  SubSeq(seq, 1, n) \o <<e>> \o SubSeq(seq, n + 1, Len(seq))
    ELSE Append(seq, e)

\* the ids of the draws of batch k: the player's (j = 0) and food item j's
IdDraw(k, j) ==
    CASE k = 3 /\ j = 0 -> 12345678
      [] k = 3 /\ j = 3 -> 23456789
      [] OTHER -> Letters

\* Number.prototype.toString: the decimal digits of a non-negative integer
RECURSIVE numToString(_)
numToString(n) == IF n < 10 THEN <<n>> ELSE Append(numToString(n \div 10), n % 10)

\* mutant of Falsy: only a missing walletAddress is refused
FalsyMissingOnly(w) == w = Undefined

\* !x of JavaScript for the wallet values a join message may carry
Falsy(w) == w \in {Undefined, ""}

\* ------------------------------------------------------------ geometry
\* playerRadius / foodRadius
playerRadius(score) == BaseRadius + score

foodRadius(score) == BaseRadius + score

Abs(n) == IF n < 0 THEN -n ELSE n

\* Math.hypot(dx, dy) is the double sqrt((dx / m)^2 + (dy / m)^2) * m, with m
\* the larger of |dx|, |dy|.  For integers dx, dy at an integer distance d
\* it is d, or one of the two doubles next to d.  HypotBelow holds the pairs
\* (smaller, larger of |dx|, |dy|) for which it is the double below d:
\* Math.hypot(20, 99) is 100.99999999999999.  The list is complete for the
\* distances up to 300.
HypotBelow ==
    { <<20, 99>>, <<45, 108>>, <<27, 120>>, <<52, 165>>, <<57, 176>>,
      <<48, 189>>, <<40, 198>>, <<45, 200>>, <<144, 165>>, <<85, 204>>,
      <<140, 171>>, <<90, 216>>, <<120, 209>>, <<54, 240>>, <<95, 228>>,
      <<69, 260>> }

\* dist(a, b) < r, with dist(a, b) = Math.hypot(a.x - b.x, a.y - b.y), for
\* integer coordinates and an integer r.  With n the exact square of the
\* distance: for n < r * r the root is below r by 1 / (2 r) at least and for
\* n > r * r above it by as much, far more than the rounding of hypot; for
\* n = r * r the test is true when hypot returns the double below r.
DistLess(a, b, r) ==
    LET dx == Abs(a.x - b.x)
        dy == Abs(a.y - b.y)
        n == dx * dx + dy * dy
    IN  \/ n < r * r
        \/ n = r * r /\ <<IF dx < dy THEN dx ELSE dy, IF dx < dy THEN dy ELSE dx>> \in HypotBelow

\* ------------------------------------------------------------ food spawn
\* randPos() and randScore() for item i of a batch: the draws are inputs,
\* taken from the fixed batches of Batches.  Every coordinate is a value
\* Math.random() * 1920 (x) or Math.random() * 1080 (y) takes.  Item 2 lies
\* 15.8 from the spawn point and 22.7 from (478,500), item 3 lies 10.2 from
\* (478,500) and 22.4 from the spawn point, item 4 lies 25 from (478,500),
\* items 5..20 far from every position a move may carry.  In the batch of
\* TouchBatches items 1..19 lie on (495,515) and item 20 on (1620,1020).
randPos(k, i) ==
    CASE k \in TouchBatches /\ i < FoodBatchSize -> [x |-> 495, y |-> 515]
      [] k \in TouchBatches /\ i = FoodBatchSize -> [x |-> 1620, y |-> 1020]
      [] i = 1 -> [x |-> 524, y |-> 531]
      [] i = 2 \/ k \in RespawnBatches -> [x |-> 495, y |-> 515]
      [] i = 3 -> [x |-> 480, y |-> 490]
      [] i = 4 -> [x |-> 458, y |-> 515]
      [] OTHER -> [x |-> 1020 + 30 * i, y |-> 1020]

randScore(k, i) ==
    CASE k \in TouchBatches /\ i <= 15 -> 4
      [] k \in TouchBatches /\ i < FoodBatchSize -> 5
      [] k \in TouchBatches /\ i = FoodBatchSize -> 1
      [] i = 1 -> IF k % 2 = 1 THEN 1 ELSE 3
      [] i = 2 -> IF k % 2 = 1 THEN 2 ELSE 1
      [] i = 3 -> 2
      [] i = 4 -> 3
      [] OTHER -> ((i + k) % MaxFoodScore) + 1

\* Array.from({ length: 20 }, ...) filling g.food from item i on; the draws
\* of the ids are the draws n + 1 .. n + 20 of genId
RECURSIVE SpawnFrom(_, _, _, _)
SpawnFrom(food, k, n, i) ==
    IF i > FoodBatchSize THEN food
    ELSE SpawnFrom(SetKey(food, [id |-> genId(n + i, IdDraw(k, i)),
                                 x |-> randPos(k, i).x, y |-> randPos(k, i).y,
                                 score |-> randScore(k, i)]),
                   k, n, i + 1)

SpawnFood(food, k, n) == SpawnFrom(food, k, n, 1)

\* ------------------------------------------------------------ broadcast
\* one player of a 'state' message: every field but socketId
PlayerView(p) ==
    [id |-> p.id, name |-> p.name, x |-> p.x, y |-> p.y, score |-> p.score,
     walletAddress |-> p.walletAddress]

\* broadcastState(gameId): the emissions it makes (none when the game is absent)
broadcastState(gs, rm, gid) ==
    IF gid \notin DOMAIN gs THEN <<>>
    ELSE << [gameId |-> gid, to |-> rm[gid],
             players |-> [i \in 1..Len(gs[gid].players) |-> PlayerView(gs[gid].players[i])],
             food |-> gs[gid].food] >>

\* pos is the position an accepted move message carried, <<>> otherwise
Event(op, c, acc, calls, bcasts, cmps, pid) ==
    [op |-> op, conn |-> c, accepted |-> acc, calls |-> calls,
     bcasts |-> bcasts, cmps |-> cmps, playerId |-> pid, pos |-> <<>>]

\* mutant of Ignored: the state is broadcast before the guard
IgnoredAfterBroadcast(gs, rm, op, c, gid, pid) ==
    Event(op, c, FALSE, <<>>, broadcastState(gs, rm, gid), <<>>, pid)

\* what a handler that returns at its guard emits: nothing
Ignored(gs, rm, op, c, gid, pid) == Event(op, c, FALSE, <<>>, <<>>, <<>>, pid)

\* ------------------------------------------------------------ init
InitGame ==
    /\ games = EmptyMap
    /\ conn = EmptyMap
    /\ rooms = [g \in GameIds |-> {}]
    /\ idCount = 0
    /\ joins = 0
    /\ ev = Event("init", 0, FALSE, <<>>, <<>>, <<>>, NoPlayer)

\* the ws server before its first connection
InitWs ==
    /\ wsGames = EmptyMap
    /\ wsHeap = <<>>
    /\ wsConn = EmptyMap
    /\ wsIdCount = 0
    /\ wsEv = [op |-> "init", conn |-> 0, sent |-> <<>>, calls |-> <<>>]

\* no settlement call made yet, on a pool nobody holds a share of
InitSettle ==
    /\ ledger = [shares |-> EmptyMap, depositors |-> <<>>, totalDeposits |-> 0,
                 depositsAs |-> "bigint"]
    /\ ledger0 = ledger
    /\ tasks = <<>>

Init == InitGame /\ InitSettle /\ InitWs

\* io.on('connection'): a new socket, its closure with gameId = playerId = null
Connect ==
    /\ LET c == Cardinality(DOMAIN conn) + 1
       IN  /\ c \in Conns
           /\ conn' = Put(conn, c, [status |-> "open", gameId |-> Null, playerId |-> NoPlayer])
           /\ ev' = Event("connect", c, TRUE, <<>>, <<>>, <<>>, NoPlayer)
    /\ UNCHANGED <<games, rooms, idCount, joins>>
    /\ UNCHANGED <<settleVars, wsVars>>

Open(c) == c \in DOMAIN conn /\ conn[c].status = "open"

\* ------------------------------------------------------------ join
NewPlayer(pid, name, w, c) ==
    [id |-> pid, name |-> name, x |-> SpawnX, y |-> SpawnY, score |-> 0,
     walletAddress |-> w, socketId |-> c]

\* mutant of NeedsFood: the food set is topped up whenever it is below a batch
NeedsFoodBelowBatch(food) == Len(food) < FoodBatchSize

\* Object.keys(g.food).length === 0
NeedsFood(food) == Len(food) = 0

\* the registry after lines 58-64: get-or-create, insert the player, spawn
\* food; n is the ordinal of the genId draw of line 57
JoinGame(gs, gid, n, name, w, c, k) ==
    LET g0 == IF gid \in DOMAIN gs THEN gs[gid] ELSE [players |-> <<>>, food |-> <<>>]
        pl == SetKey(g0.players, NewPlayer(genId(n, IdDraw(k, 0)), name, w, c))
        fd == IF NeedsFood(g0.food) THEN SpawnFood(g0.food, k, n) ELSE g0.food
    IN  Put(gs, gid, [players |-> pl, food |-> fd])

\* genId has not returned the id before (two equal draws of eight base-36
\* digits are left out)
FreshId(pid) ==
    /\ \A c \in DOMAIN conn : conn[c].playerId # pid
    /\ \A gid \in DOMAIN games : pid \notin Ids(games[gid].players)

\* ids genId produced by one join: the player's, and 20 more on a spawn
IdsUsed(gs, gid) ==
    IF gid \in DOMAIN gs /\ Len(gs[gid].food) # 0 THEN 1 ELSE 1 + FoodBatchSize

Join(c, gid, name, w, k) ==
    /\ Open(c)
    /\ IF Falsy(w)
       THEN /\ ev' = Ignored(games, rooms, "join", c, gid, NoPlayer)
            /\ UNCHANGED <<games, conn, rooms, idCount, joins>>
       ELSE /\ joins < MaxJoins
            /\ FreshId(genId(idCount + 1, IdDraw(k, 0)))
            /\ LET pid == genId(idCount + 1, IdDraw(k, 0))
                   gs1 == JoinGame(games, gid, idCount + 1, name, w, c, k)
                   rm1 == [rooms EXCEPT ![gid] = @ \cup {c}]
               IN  /\ games' = gs1
                   /\ conn' = [conn EXCEPT ![c].gameId = gid, ![c].playerId = pid]
                   /\ rooms' = rm1
                   /\ idCount' = idCount + IdsUsed(games, gid)
                   /\ joins' = joins + 1
                   /\ ev' = Event("join", c, TRUE, <<>>,
                                  broadcastState(gs1, rm1, gid), <<>>, pid)
    /\ UNCHANGED <<settleVars, wsVars>>

\* ------------------------------------------------------------ move
\* handleFoodEat(food.score.toString(), player.walletAddress)
FoodEatCall(f, player) ==
    [fn |-> "handleFoodEat", absoluteVal |-> numToString(f.score),
     eater |-> player.walletAddress]

\* fetch(WEBHOOK_URL, { body: { player: player.name, food, gameId } })
FetchCall(f, player, gid) ==
    [fn |-> "fetch", player |-> player.name, food |-> f, gameId |-> gid]

\* handleUserEat(a, b, gameId)
UserEatCall(loser, winner, gid) ==
    [fn |-> "handleUserEat", a |-> loser.walletAddress, b |-> winner.walletAddress,
     gameId |-> gid]

\* dist(player, food) < playerRadius(player.score) + foodRadius(food.score)
HitsFood(player, f) ==
    DistLess(player, f, playerRadius(player.score) + foodRadius(f.score))

\* dist(player, other) < r1 + r2
HitsPlayer(player, other) ==
    DistLess(player, other, playerRadius(player.score) + playerRadius(other.score))

\* mutant of MoverWins: >= for >
MoverWinsOnTie(player, other) == player.score >= other.score

\* player.score > other.score
MoverWins(player, other) == player.score > other.score

\* player.score < other.score
OtherWins(player, other) == player.score < other.score

\* the body of the food forEach callback once the overlap test passed
EatFood(st, f, gid) ==
    [st EXCEPT !.player.score = @ + f.score,
               !.calls = @ \o << FoodEatCall(f, st.player), FetchCall(f, st.player, gid) >>,
               !.food = Delete(@, f.id)]

\* Object.values(g.food).forEach(...): the snapshot's items in property order
RECURSIVE FoodPass(_, _, _, _)
FoodPass(st, snap, i, gid) ==
    IF i > Len(snap) THEN st
    ELSE IF HitsFood(st.player, snap[i])
         THEN FoodPass(EatFood(st, snap[i], gid), snap, i + 1, gid)
         ELSE FoodPass(st, snap, i + 1, gid)

\* g.players while the handler runs; st.player is the mover's object, which
\* the handler keeps writing also after delete g.players[playerId]
PlayersNow(st) ==
    [i \in 1..Len(st.players) |->
        IF st.players[i].id = st.player.id THEN st.player ELSE st.players[i]]

\* what the player forEach callback does on one entry, for the claims
Cmp(st, other, out) ==
    [other |-> other.id, live |-> st.player.id \in Ids(st.players),
     pScore |-> st.player.score, oScore |-> other.score,
     hit |-> HitsPlayer(st.player, other), outcome |-> out]

\* lines 100-103: the mover eats other
MoverEats(st, other, gid) ==
    [st EXCEPT !.player.score = @ + other.score,
               !.calls = Append(@, UserEatCall(other, st.player, gid)),
               !.players = Delete(@, other.id),
               !.cmps = Append(@, Cmp(st, other, "moverEats"))]

\* lines 105-110: other eats the mover.  The return leaves the callback only,
\* so the entries after this one are still visited.
OtherEats(st, other, gid, rm) ==
    LET pl1 == Delete([i \in 1..Len(st.players) |->
                          IF st.players[i].id = other.id
                          THEN [other EXCEPT !.score = @ + st.player.score]
                          ELSE st.players[i]],
                      st.player.id)
        g1 == [players |-> pl1, food |-> st.food]
    IN  [st EXCEPT !.players = pl1,
                   !.calls = Append(@, UserEatCall(st.player, other, gid)),
                   !.bcasts = @ \o broadcastState(Put(EmptyMap, gid, g1), rm, gid),
                   !.cmps = Append(@, Cmp(st, other, "otherEats"))]

\* no overlap, or equal scores
NoEat(st, other) == [st EXCEPT !.cmps = Append(@, Cmp(st, other, "none"))]

\* Object.entries(g.players).forEach(...): the snapshot's entries in property
\* order, otherId # playerId
RECURSIVE PlayerPass(_, _, _, _, _)
PlayerPass(st, snap, i, gid, rm) ==
    IF i > Len(snap) THEN st
    ELSE IF snap[i].id = st.player.id THEN PlayerPass(st, snap, i + 1, gid, rm)
    ELSE LET other == Get(st.players, snap[i].id)
         IN  IF HitsPlayer(st.player, other) /\ MoverWins(st.player, other)
             THEN PlayerPass(MoverEats(st, other, gid), snap, i + 1, gid, rm)
             ELSE IF HitsPlayer(st.player, other) /\ OtherWins(st.player, other)
             THEN PlayerPass(OtherEats(st, other, gid, rm), snap, i + 1, gid, rm)
             ELSE PlayerPass(NoEat(st, other), snap, i + 1, gid, rm)

\* mutant of AfterFood: the player pass reads the score the move started with
AfterFoodStaleScore(st0, st1) == [st1 EXCEPT !.player.score = st0.player.score]

\* the handler's state between the two passes
AfterFood(st0, st1) == st1

\* lines 75-115 on game g, for the live player pid moved to pos
MoveGame(g, gid, pid, pos, rm) ==
    LET moved == [Get(g.players, pid) EXCEPT !.x = pos[1], !.y = pos[2]]
        st0 == [player |-> moved, players |-> g.players, food |-> g.food,
                calls |-> <<>>, bcasts |-> <<>>, cmps |-> <<>>]
        st1 == AfterFood(st0, FoodPass(st0, g.food, 1, gid))
        st2 == PlayerPass(st1, g.players, 1, gid, rm)
        g2 == [players |-> PlayersNow(st2), food |-> st2.food]
    IN  [game |-> g2, calls |-> st2.calls, cmps |-> st2.cmps,
         bcasts |-> st2.bcasts \o broadcastState(Put(EmptyMap, gid, g2), rm, gid)]

\* the player the closure's ids name: gameId, playerId set and g?.players[playerId]
HasPlayer(gs, gid, pid) ==
    /\ gid \notin {Null, ""}
    /\ pid # NoPlayer
    /\ gid \in DOMAIN gs
    /\ pid \in Ids(gs[gid].players)

MoveHandler(c, pos) ==
    /\ Open(c)
    /\ LET gid == conn[c].gameId
           pid == conn[c].playerId
       IN  IF ~HasPlayer(games, gid, pid)
           THEN /\ ev' = Ignored(games, rooms, "move", c, gid, pid)
                /\ UNCHANGED <<games, conn, rooms, idCount, joins>>
           ELSE LET r == MoveGame(games[gid], gid, pid, pos, rooms)
                IN  /\ games' = [games EXCEPT ![gid] = r.game]
                    /\ ev' = [Event("move", c, TRUE, r.calls, r.bcasts, r.cmps, pid)
                                 EXCEPT !.pos = pos]
                    /\ UNCHANGED <<conn, rooms, idCount, joins>>

\* the handler alone: what becomes of the calls it makes is lib.ts's part
Move(c, pos) == MoveHandler(c, pos) /\ UNCHANGED <<settleVars, wsVars>>

\* ------------------------------------------------------------ disconnect
\* delete g.players[playerId]
DropPlayer(gs, gid, pid) == [gs EXCEPT ![gid].players = Delete(@, pid)]

\* mutant of PruneGame: the empty session is kept
PruneGameNever(gs, gid) == gs

\* if (Object.keys(g.players).length === 0) delete games[gameId]
PruneGame(gs, gid) ==
    IF Len(gs[gid].players) = 0 THEN Remove(gs, gid) ELSE gs

\* socket.io has taken the socket out of its rooms when 'disconnect' fires
Disconnect(c) ==
    /\ Open(c)
    /\ LET gid == conn[c].gameId
           pid == conn[c].playerId
           rm1 == [g \in GameIds |-> rooms[g] \ {c}]
       IN  /\ conn' = [conn EXCEPT ![c].status = "closed"]
           /\ rooms' = rm1
           /\ IF ~HasPlayer(games, gid, pid)
              THEN /\ ev' = Ignored(games, rm1, "disconnect", c, gid, pid)
                   /\ UNCHANGED games
              ELSE LET gs1 == DropPlayer(games, gid, pid)
                   IN  /\ games' = PruneGame(gs1, gid)
                       /\ ev' = Event("disconnect", c, TRUE, <<>>,
                                      broadcastState(gs1, rm1, gid), <<>>, pid)
           /\ UNCHANGED <<idCount, joins>>
    /\ UNCHANGED <<settleVars, wsVars>>

\* ------------------------------------------------------------ specification
Next ==
    \/ Connect
    \/ \E c \in Conns, gid \in GameIds, name \in Names, k \in Batches :
          \E w \in WalletsOf(c) : Join(c, gid, name, w, k)
    \/ \E c \in Conns, pos \in MovePos : Move(c, pos)
    \/ \E c \in Conns : Disconnect(c)

Spec == Init /\ [][Next]_vars

\* the same server when the draws of a spawn put the batch next to the spawn point
NextRespawn ==
    \/ Connect
    \/ \E c \in Conns, gid \in GameIds, name \in Names, k \in RespawnBatches :
          \E w \in WalletsOf(c) : Join(c, gid, name, w, k)
    \/ \E c \in Conns, pos \in MovePos : Move(c, pos)
    \/ \E c \in Conns : Disconnect(c)

SpecRespawn == Init /\ [][NextRespawn]_vars

\* the same server when the draws of a spawn let one move eat a score of 80
NextTouch ==
    \/ Connect
    \/ \E c \in Conns, gid \in GameIds, name \in Names, k \in TouchBatches :
          \E w \in WalletsOf(c) : Join(c, gid, name, w, k)
    \/ \E c \in Conns, pos \in TouchMovePos : Move(c, pos)
    \/ \E c \in Conns : Disconnect(c)

SpecTouch == Init /\ [][NextTouch]_vars

\* ============================================================ lib.ts
\* ------------------------------------------------------------ the contract
\* String.prototype.toLowerCase on the addresses of WalletNames; a string
\* without an upper-case letter is returned as it is
toLowerCase(w) ==
    CASE w = "0xA" -> "0xa"
      [] w = "0xB" -> "0xb"
      [] w = "0xC" -> "0xc"
      [] w = "0xD" -> "0xd"
      [] w = "0xE" -> "0xe"
      [] w = "0xF" -> "0xf"
      [] OTHER -> w

\* the form in which readContract returns an address (checksummed)
Checksummed(a) ==
    CASE a = "0xa" -> "0xA"
      [] a = "0xb" -> "0xB"
      [] a = "0xc" -> "0xC"
      [] a = "0xd" -> "0xD"
      [] a = "0xe" -> "0xE"
      [] a = "0xf" -> "0xF"
      [] OTHER -> a

\* readContract getUserInfo(addr): the share of addr, 0 when it holds none;
\* the contract takes an address in any case of its hex digits
getUserInfo(l, addr) ==
    IF toLowerCase(addr) \in DOMAIN l.shares THEN l.shares[toLowerCase(addr)] ELSE 0

\* readContract getAllDepositors()
getAllDepositors(l) == [i \in 1..Len(l.depositors) |-> Checksummed(l.depositors[i])]

\* writeContract updateUserShare(user, share)
updateUserShare(l, user, share) ==
    [l EXCEPT !.shares = Put(@, toLowerCase(user), share)]

\* writeContract updateSharesBatch(users, newShares), entries applied in order
RECURSIVE updateSharesBatch(_, _, _)
updateSharesBatch(l, upd, i) ==
    IF i > Len(upd) THEN l
    ELSE updateSharesBatch(updateUserShare(l, upd[i].address, upd[i].share), upd, i + 1)

\* ------------------------------------------------------------ arithmetic
\* Number(s) of a string of decimal digits: what absoluteVal / foodAbs makes
\* of the string the socket.io server passes
RECURSIVE stringToNum(_)
stringToNum(s) ==
    IF Len(s) = 0 THEN 0 ELSE 10 * stringToNum(SubSeq(s, 1, Len(s) - 1)) + s[Len(s)]

\* n without its factors of 2
RECURSIVE OddPart(_)
OddPart(n) == IF n > 0 /\ n % 2 = 0 THEN OddPart(n \div 2) ELSE n

\* The pairs (v, d) for which the double (v / d) * 100 misses the integer
\* v * 100 / d: 7 / 100 * 100 is 7.000000000000001 and 11 / 5 * 100 is
\* 220.00000000000003.  A factor of 2 in v or d changes only the exponent of
\* the doubles, so the pairs are listed by their odd parts; the list is
\* complete for the v whose odd part is below 100.
RoundedOff ==
    { <<7, 25>>, <<11, 5>>, <<21, 75>>, <<23, 5>>, <<29, 25>>,
      <<33, 15>>, <<35, 125>>, <<41, 5>>, <<49, 5>>, <<49, 175>>,
      <<51, 5>>, <<55, 25>>, <<57, 25>>, <<63, 225>>, <<69, 15>>,
      <<77, 35>>, <<77, 275>>, <<83, 5>>, <<87, 5>>, <<87, 75>>,
      <<91, 325>>, <<93, 5>>, <<97, 5>>, <<99, 45>> }

Throws == -1

\* BigInt((absoluteVal / foodAbs) * 100): the integer, or Throws (RangeError)
\* when the double is not an integer (also Infinity or NaN, for foodAbs = 0)
BigIntOfFood(v, d) ==
    IF d = 0 \/ (v * 100) % d # 0 \/ <<OddPart(v), OddPart(d)>> \in RoundedOff THEN Throws
    ELSE (v * 100) \div d

RECURSIVE SumShares(_, _, _)
\* shares.filter(s => s.address !== eaterLower).reduce((sum, s) => sum + s.share, 0n)
SumShares(shares, eaterLower, i) ==
    IF i > Len(shares) THEN 0
    ELSE (IF shares[i].address # eaterLower THEN shares[i].share ELSE 0)
         + SumShares(shares, eaterLower, i + 1)

\* ------------------------------------------------------------ calls
\* a call of lib.ts (or of fetch) at its first await, with its locals
NewTask(call) ==
    [fn |-> call.fn,
     a |-> CASE call.fn = "handleUserEat" -> call.a
             [] call.fn = "handleFoodEat" -> call.eater
             [] OTHER -> "",
     b |-> IF call.fn = "handleUserEat" THEN call.b ELSE "",
     val |-> IF call.fn = "handleFoodEat" THEN call.absoluteVal ELSE <<>>,
     pc |-> CASE call.fn = "handleUserEat" -> "getUserInfo"
              [] call.fn = "handleFoodEat" -> "totalDeposits"
              [] OTHER -> "fetch",
     share |-> 0, foodAbs |-> 0, deps |-> <<>>, got |-> <<>>, toRead |-> {},
     upd |-> <<>>, out |-> "", err |-> ""]

RECURSIVE NewTasks(_, _)
NewTasks(calls, i) ==
    IF i > Len(calls) THEN <<>> ELSE <<NewTask(calls[i])>> \o NewTasks(calls, i + 1)

\* the call ends: out is "ok", "rejected" (logged refusal) or "caught" (an
\* exception reached the catch block and was logged)
Done(task, out) == [task EXCEPT !.pc = "done", !.out = out]

\* the call ends in its catch block with the error err
Caught(task, err) == [Done(task, "caught") EXCEPT !.err = err]

\* mutant of OnOutcome: a call that was refused or failed takes the scores back
OnOutcomeRollback(gs, task) ==
    IF task.out \in {"caught", "rejected"}
    THEN [gid \in DOMAIN gs |->
             [gs[gid] EXCEPT !.players =
                 [k \in 1..Len(@) |-> [@[k] EXCEPT !.score = 0]]]]
    ELSE gs

\* the registry after a step of a call: lib.ts logs its outcome (lines 75-80,
\* 126-127, 151-154) and has no access to games
OnOutcome(gs, task) == gs

\* what a step of call i leaves of the server's state
Settled(i) ==
    /\ games' = OnOutcome(games, tasks'[i])
    /\ UNCHANGED <<conn, rooms, idCount, joins, ev, ledger0, wsVars>>

At(i, fn, pc) == i \in 1..Len(tasks) /\ tasks[i].fn = fn /\ tasks[i].pc = pc

\* ------------------------------------------------------------ handleUserEat
\* mutant of ZeroShare: the guard is missing
ZeroShareNever(share) == FALSE

\* share === BigInt(0)
ZeroShare(share) == share = 0

\* lines 47-57: the read of a's share returns; a zero share throws
UserEatRead(i) ==
    /\ At(i, "handleUserEat", "getUserInfo")
    /\ LET share == getUserInfo(ledger, tasks[i].a)
       IN  tasks' = [tasks EXCEPT ![i] =
                        IF ZeroShare(share) THEN Caught(@, "has no shares")
                        ELSE [@ EXCEPT !.share = share, !.pc = "write_a"]]
    /\ UNCHANGED ledger /\ Settled(i)

\* lines 60-65: updateUserShare(a, 0) is mined
UserEatWriteA(i) ==
    /\ At(i, "handleUserEat", "write_a")
    /\ ledger' = updateUserShare(ledger, tasks[i].a, 0)
    /\ tasks' = [tasks EXCEPT ![i].pc = "write_b"]
    /\ Settled(i)

\* lines 68-77: updateUserShare(b, share) is mined
UserEatWriteB(i) ==
    /\ At(i, "handleUserEat", "write_b")
    /\ ledger' = updateUserShare(ledger, tasks[i].b, tasks[i].share)
    /\ tasks' = [tasks EXCEPT ![i] = Done(@, "ok")]
    /\ Settled(i)

\* ------------------------------------------------------------ handleFoodEat
\* lines 100-111: the array Promise.all resolves to, in the depositors' order
FoodShares(task) ==
    [k \in 1..Len(task.deps) |->
        [address |-> toLowerCase(task.deps[k]), share |-> task.got[k]]]

\* lines 114-118
WithEater(shares, eaterLower) ==
    IF \E k \in 1..Len(shares) : shares[k].address = eaterLower THEN shares
    ELSE Append(shares, [address |-> eaterLower, share |-> 0])

\* x > othersTotal
TooMuch(x, othersTotal) == x > othersTotal

\* lines 130-137; BigInt division truncates
Redistribute(shares, eaterLower, x, othersTotal) ==
    [k \in 1..Len(shares) |->
        IF shares[k].address = eaterLower
        THEN [address |-> shares[k].address, share |-> shares[k].share + x]
        ELSE [address |-> shares[k].address,
              share |-> (shares[k].share * (othersTotal - x)) \div othersTotal]]

\* lines 113-140, run once every read of Promise.all has returned
FoodDecide(task) ==
    LET eaterLower == toLowerCase(task.a)
        shares == WithEater(FoodShares(task), eaterLower)
        x == BigIntOfFood(stringToNum(task.val), task.foodAbs)
        othersTotal == SumShares(shares, eaterLower, 1)
    IN  IF x = Throws THEN Caught(task, "RangeError")
        ELSE IF TooMuch(x, othersTotal) THEN Done(task, "rejected")
        ELSE IF othersTotal = 0 /\ \E k \in 1..Len(shares) : shares[k].address # eaterLower
        THEN Caught(task, "Division by zero")
        ELSE [task EXCEPT !.pc = "simulate",
                          !.upd = Redistribute(shares, eaterLower, x, othersTotal)]

AfterReads(task) == IF task.toRead = {} THEN FoodDecide(task) ELSE task

\* What readContract answers totalDeposits with.  viem decodes the answer by
\* the output type the ABI of ../TokenPool declares: a bigint for uint256 (and
\* any uint above 48 bits), a number for a narrower one.  The ABI is not part
\* of src/ and the "as number" of line 90 converts nothing, so a build has
\* one of the two.
DepositKinds == {"number", "bigint"}

\* line 92, absoluteVal / foodAbs: a bigint foodAbs with the number or string
\* absoluteVal throws TypeError (Cannot mix BigInt and other types)
MixesBigInt(l) == l.depositsAs = "bigint"

\* lines 86-92: totalDeposits returns; when the division throws the call ends
\* in the catch block of line 152 with no other request sent
FoodTotalDeposits(i) ==
    /\ At(i, "handleFoodEat", "totalDeposits")
    /\ tasks' = [tasks EXCEPT ![i] =
                    IF MixesBigInt(ledger) THEN Caught(@, "TypeError")
                    ELSE [@ EXCEPT !.foodAbs = ledger.totalDeposits,
                                   !.pc = "getAllDepositors"]]
    /\ UNCHANGED ledger /\ Settled(i)

\* lines 94-101: getAllDepositors returns, one getUserInfo is sent per depositor
FoodDepositors(i) ==
    /\ At(i, "handleFoodEat", "getAllDepositors")
    /\ LET deps == getAllDepositors(ledger)
       IN  tasks' = [tasks EXCEPT ![i] =
                        AfterReads([@ EXCEPT !.deps = deps,
                                             !.got = [k \in 1..Len(deps) |-> 0],
                                             !.toRead = 1..Len(deps),
                                             !.pc = "getUserInfo"])]
    /\ UNCHANGED ledger /\ Settled(i)

\* lines 102-109: one of the reads returns (they are served in any order)
FoodRead(i, k) ==
    /\ At(i, "handleFoodEat", "getUserInfo")
    /\ k \in tasks[i].toRead
    /\ tasks' = [tasks EXCEPT ![i] =
                    AfterReads([@ EXCEPT !.got[k] = getUserInfo(ledger, tasks[i].deps[k]),
                                         !.toRead = @ \ {k}])]
    /\ UNCHANGED ledger /\ Settled(i)

\* lines 142-148: simulateContract returns the request
FoodSimulate(i) ==
    /\ At(i, "handleFoodEat", "simulate")
    /\ tasks' = [tasks EXCEPT ![i].pc = "write"]
    /\ UNCHANGED ledger /\ Settled(i)

\* lines 150-151: updateSharesBatch(users, newShares) is mined
FoodWrite(i) ==
    /\ At(i, "handleFoodEat", "write")
    /\ ledger' = updateSharesBatch(ledger, tasks[i].upd, 1)
    /\ tasks' = [tasks EXCEPT ![i] = Done(@, "ok")]
    /\ Settled(i)

\* ------------------------------------------------------------ fetch, failures
\* the webhook answers: .then logs
FetchDone(i) ==
    /\ At(i, "fetch", "fetch")
    /\ tasks' = [tasks EXCEPT ![i] = Done(@, "ok")]
    /\ UNCHANGED ledger /\ Settled(i)

\* the awaited read, write or request fails (network, revert): the promise
\* rejects, the catch block logs, nothing was written
Fail(i) ==
    /\ i \in 1..Len(tasks)
    /\ tasks[i].pc # "done"
    /\ tasks' = [tasks EXCEPT ![i] = Caught(@, "request failed")]
    /\ UNCHANGED ledger /\ Settled(i)

\* ------------------------------------------------------------ lib.ts alone
\* the contract states the calls may find: 0xa and 0xb have deposited, 0xc has
\* not; totalDeposits is answered as a number or as a bigint
LedgerInputs ==
    { [shares |-> Put(Put(EmptyMap, "0xa", sa), "0xb", 2),
       depositors |-> <<"0xa", "0xb">>, totalDeposits |-> d, depositsAs |-> t] :
         sa \in {0, 3}, d \in {100, 200}, t \in DepositKinds }

\* the arguments the game may pass
FoodScores == {2, 4, 7}
Eaters == {"0xA", "0xC"}
EatPairs == { <<"0xA", "0xB">>, <<"0xB", "0xA">> }

InitLedger ==
    /\ InitGame /\ InitWs
    /\ ledger \in LedgerInputs
    /\ ledger0 = ledger
    /\ tasks = <<>>

\* handleUserEat(a, b, gameId) is called
CallUserEat(a, b) ==
    /\ Len(tasks) < MaxCalls
    /\ tasks' = Append(tasks, NewTask(UserEatCall([walletAddress |-> a],
                                                  [walletAddress |-> b], "g1")))
    /\ UNCHANGED <<ledger, ledger0, gameVars, wsVars>>

\* handleFoodEat(food.score.toString(), eater) is called
CallFoodEat(v, eater) ==
    /\ Len(tasks) < MaxCalls
    /\ tasks' = Append(tasks, NewTask(FoodEatCall([score |-> v],
                                                  [walletAddress |-> eater])))
    /\ UNCHANGED <<ledger, ledger0, gameVars, wsVars>>

NextLedger ==
    \/ \E p \in EatPairs : CallUserEat(p[1], p[2])
    \/ \E v \in FoodScores, e \in Eaters : CallFoodEat(v, e)
    \/ \E i \in 1..Len(tasks) : UserEatRead(i)
    \/ \E i \in 1..Len(tasks) : UserEatWriteA(i)
    \/ \E i \in 1..Len(tasks) : UserEatWriteB(i)
    \/ \E i \in 1..Len(tasks) : FoodTotalDeposits(i)
    \/ \E i \in 1..Len(tasks) : FoodDepositors(i)
    \/ \E i \in 1..Len(tasks) : \E k \in tasks[i].toRead : FoodRead(i, k)
    \/ \E i \in 1..Len(tasks) : FoodSimulate(i)
    \/ \E i \in 1..Len(tasks) : FoodWrite(i)
    \/ \E i \in 1..Len(tasks) : Fail(i)

SpecLedger == InitLedger /\ [][NextLedger]_vars

\* ------------------------------------------------------------ server and lib.ts
\* the move handler with the calls it starts: each runs to its first await
\* inside the handler and goes on after the handler has returned
MoveSettle(c, pos) ==
    /\ MoveHandler(c, pos)
    /\ Len(tasks) + Len(ev'.calls) <= MaxSettleCalls
    /\ tasks' = tasks \o NewTasks(ev'.calls, 1)
    /\ UNCHANGED <<ledger, ledger0, wsVars>>

\* two connections have joined g1, the state after Connect, Connect, Join(1), Join(2)
InitJoined ==
    LET p1 == 1
        p2 == p1 + IdsUsed(EmptyMap, "g1")
        gs1 == JoinGame(EmptyMap, "g1", p1, "n", WalletNames[1], 1, 1)
        gs2 == JoinGame(gs1, "g1", p2, "n", WalletNames[2], 2, 1)
        rm == [g \in GameIds |-> {1, 2}]
    IN  /\ games = gs2
        /\ conn = Put(Put(EmptyMap, 1, [status |-> "open", gameId |-> "g1", playerId |-> p1]),
                      2, [status |-> "open", gameId |-> "g1", playerId |-> p2])
        /\ rooms = rm
        /\ idCount = p2 + IdsUsed(gs1, "g1") - 1
        /\ joins = 2
        /\ ev = Event("join", 2, TRUE, <<>>, broadcastState(gs2, rm, "g1"), <<>>, p2)

InitSettleGame ==
    /\ InitJoined /\ InitWs
    /\ ledger \in {l \in LedgerInputs : l.totalDeposits = 100}
    /\ ledger0 = ledger
    /\ tasks = <<>>

NextSettle ==
    \/ \E c \in Conns, pos \in MovePos : MoveSettle(c, pos)
    \/ \E i \in 1..Len(tasks) : UserEatRead(i)
    \/ \E i \in 1..Len(tasks) : UserEatWriteA(i)
    \/ \E i \in 1..Len(tasks) : UserEatWriteB(i)
    \/ \E i \in 1..Len(tasks) : FoodTotalDeposits(i)
    \/ \E i \in 1..Len(tasks) : FoodDepositors(i)
    \/ \E i \in 1..Len(tasks) : \E k \in tasks[i].toRead : FoodRead(i, k)
    \/ \E i \in 1..Len(tasks) : FoodSimulate(i)
    \/ \E i \in 1..Len(tasks) : FoodWrite(i)
    \/ \E i \in 1..Len(tasks) : FetchDone(i)
    \/ \E i \in 1..Len(tasks) : Fail(i)

SpecSettle == InitSettleGame /\ [][NextSettle]_vars

\* ============================================================ ws server
\* The second server of part_000 (lines 135-277): connections to /ws/<gameId>.
\* A connection takes the session object of its game when it is made and
\* keeps that reference (g) for all its handlers, the registry is looked up
\* again only by broadcastState.
WsConns == {1, 2}

\* the ids genId may return for a connection's player
WsIdDraws == {IdDraw(k, 0) : k \in Batches}

\* { players: {}, food: {} }
WsNewSession == [players |-> <<>>, food |-> <<>>]

WsEvent(op, c, sent, calls) == [op |-> op, conn |-> c, sent |-> sent, calls |-> calls]

\* randPos of the ws server for item i of batch k: Math.random() * 1000 for
\* both coordinates.  Item 1 lies at (524,532), item 2 on the spawn point,
\* item 3 at (478,500), the others far from every position a move may carry.
wsRandPos(k, i) ==
    CASE i = 1 -> [x |-> 524, y |-> 532]
      [] i = 2 -> [x |-> 500, y |-> 500]
      [] i = 3 -> [x |-> 478, y |-> 500]
      [] OTHER -> [x |-> 700 + 10 * (i % 10), y |-> 940 + 10 * (i \div 10)]

\* Array.from({ length: 20 }, ...) of the ws join, from item i on
RECURSIVE WsSpawnFrom(_, _, _, _)
WsSpawnFrom(food, k, n, i) ==
    IF i > FoodBatchSize THEN food
    ELSE WsSpawnFrom(SetKey(food, [id |-> genId(n + i, IdDraw(k, i)),
                                   x |-> wsRandPos(k, i).x, y |-> wsRandPos(k, i).y,
                                   score |-> randScore(k, i)]),
                     k, n, i + 1)

WsSpawnFood(food, k, n) == WsSpawnFrom(food, k, n, 1)

\* one player of a ws 'state' message
WsPlayerView(p) == [id |-> p.id, name |-> p.name, x |-> p.x, y |-> p.y, score |-> p.score]

\* broadcastState(gameId) of the ws server: the messages it sends, one per
\* player of the registered session whose socket is open
wsBroadcastState(reg, heap, cn, gid) ==
    IF gid \notin DOMAIN reg THEN <<>>
    ELSE LET g == heap[reg[gid]]
             msg == [players |-> [k \in 1..Len(g.players) |-> WsPlayerView(g.players[k])],
                     food |-> g.food]
             open == SelectSeq(g.players, LAMBDA q : cn[q.ws].status = "open")
         IN  [k \in 1..Len(open) |-> [to |-> open[k].ws, state |-> msg]]

\* no connection has been given the id
WsFreshId(pid) == \A c \in DOMAIN wsConn : wsConn[c].playerId # pid

\* wss.on('connection'): lines 200-203; d is the draw of genId
WsConnect(gid, d) ==
    /\ LET c == Cardinality(DOMAIN wsConn) + 1
           fresh == gid \notin DOMAIN wsGames
           ref == IF fresh THEN Len(wsHeap) + 1 ELSE wsGames[gid]
           pid == genId(wsIdCount + 1, d)
       IN  /\ c \in WsConns
           /\ WsFreshId(pid)
           /\ wsHeap' = IF fresh THEN Append(wsHeap, WsNewSession) ELSE wsHeap
           /\ wsGames' = Put(wsGames, gid, ref)
           /\ wsConn' = Put(wsConn, c, [status |-> "open", gameId |-> gid, g |-> ref,
                                        playerId |-> pid])
           /\ wsIdCount' = wsIdCount + 1
           /\ wsEv' = WsEvent("connect", c, <<>>, <<>>)
    /\ UNCHANGED <<gameVars, settleVars>>

WsOpen(c) == c \in DOMAIN wsConn /\ wsConn[c].status = "open"

\* g.players[playerId] = {...}
WsSetPlayer(players, p) == SetKey(players, p)

\* the session object the handlers of connection c work on: const g (line 202)
WsSession(c) == wsConn[c].g

\* ws.on('message') with msg.type === 'join': lines 208-216
WsJoin(c, name, k) ==
    /\ WsOpen(c)
    /\ LET ref == WsSession(c)
           g0 == wsHeap[ref]
           pl == WsSetPlayer(g0.players, [id |-> wsConn[c].playerId, name |-> name,
                                          x |-> SpawnX, y |-> SpawnY, ws |-> c, score |-> 0])
           fd == IF NeedsFood(g0.food) THEN WsSpawnFood(g0.food, k, wsIdCount)
                 ELSE g0.food
           heap1 == [wsHeap EXCEPT ![ref] = [players |-> pl, food |-> fd]]
       IN  /\ wsHeap' = heap1
           /\ wsIdCount' = IF NeedsFood(g0.food) THEN wsIdCount + FoodBatchSize
                           ELSE wsIdCount
           /\ wsEv' = WsEvent("join", c,
                              wsBroadcastState(wsGames, heap1, wsConn, wsConn[c].gameId),
                              <<>>)
    /\ UNCHANGED <<wsGames, wsConn, gameVars, settleVars>>

\* ------------------------------------------------------------ ws move
\* handleFoodEat(food.id, playerId)
WsFoodEatCall(f, player) ==
    [fn |-> "handleFoodEat", absoluteVal |-> f.id, eater |-> player.id]

\* handleUserEat(loserId, winnerId, gameId)
WsUserEatCall(loser, winner, gid) ==
    [fn |-> "handleUserEat", a |-> loser.id, b |-> winner.id, gameId |-> gid]

\* lines 224-236
WsEatFood(st, f, gid) ==
    [st EXCEPT !.player.score = @ + f.score,
               !.calls = @ \o << WsFoodEatCall(f, st.player), FetchCall(f, st.player, gid) >>,
               !.food = Delete(@, f.id)]

\* lines 222-238 over the snapshot Object.values(g.food)
RECURSIVE WsFoodPass(_, _, _, _)
WsFoodPass(st, snap, i, gid) ==
    IF i > Len(snap) THEN st
    ELSE IF HitsFood(st.player, snap[i])
         THEN WsFoodPass(WsEatFood(st, snap[i], gid), snap, i + 1, gid)
         ELSE WsFoodPass(st, snap, i + 1, gid)

\* lines 246-249: the mover eats other
WsMoverEats(st, other, gid) ==
    [st EXCEPT !.player.score = @ + other.score,
               !.calls = Append(@, WsUserEatCall(other, st.player, gid)),
               !.players = Delete(@, other.id)]

\* lines 251-256: other eats the mover; broadcastState reads the registry, and
\* the return leaves the callback only
WsOtherEats(st, other, gid, ref) ==
    LET pl1 == Delete([i \in 1..Len(st.players) |->
                          IF st.players[i].id = other.id
                          THEN [other EXCEPT !.score = @ + st.player.score]
                          ELSE st.players[i]],
                      st.player.id)
        heap1 == [wsHeap EXCEPT ![ref] = [players |-> pl1, food |-> st.food]]
    IN  [st EXCEPT !.players = pl1,
                   !.calls = Append(@, WsUserEatCall(st.player, other, gid)),
                   !.sent = @ \o wsBroadcastState(wsGames, heap1, wsConn, gid)]

\* lines 240-260 over the snapshot Object.entries(g.players)
RECURSIVE WsPlayerPass(_, _, _, _, _)
WsPlayerPass(st, snap, i, gid, ref) ==
    IF i > Len(snap) THEN st
    ELSE IF snap[i].id = st.player.id THEN WsPlayerPass(st, snap, i + 1, gid, ref)
    ELSE LET other == Get(st.players, snap[i].id)
         IN  IF HitsPlayer(st.player, other) /\ MoverWins(st.player, other)
             THEN WsPlayerPass(WsMoverEats(st, other, gid), snap, i + 1, gid, ref)
             ELSE IF HitsPlayer(st.player, other) /\ OtherWins(st.player, other)
             THEN WsPlayerPass(WsOtherEats(st, other, gid, ref), snap, i + 1, gid, ref)
             ELSE WsPlayerPass(st, snap, i + 1, gid, ref)

\* ws.on('message') with msg.type === 'move': lines 217-264
WsMove(c, pos) ==
    /\ WsOpen(c)
    /\ LET ref == WsSession(c)
           gid == wsConn[c].gameId
           g == wsHeap[ref]
           pid == wsConn[c].playerId
       IN  IF pid \notin Ids(g.players)
           THEN /\ wsEv' = WsEvent("move", c, <<>>, <<>>)
                /\ UNCHANGED wsHeap
           ELSE LET moved == [Get(g.players, pid) EXCEPT !.x = pos[1], !.y = pos[2]]
                    st0 == [player |-> moved, players |-> g.players, food |-> g.food,
                            calls |-> <<>>, sent |-> <<>>]
                    st1 == WsFoodPass(st0, g.food, 1, gid)
                    st2 == WsPlayerPass(st1, g.players, 1, gid, ref)
                    heap1 == [wsHeap EXCEPT ![ref] =
                                 [players |-> PlayersNow(st2), food |-> st2.food]]
                IN  /\ wsHeap' = heap1
                    /\ wsEv' = WsEvent("move", c,
                                       st2.sent \o wsBroadcastState(wsGames, heap1, wsConn, gid),
                                       st2.calls)
    /\ UNCHANGED <<wsGames, wsConn, wsIdCount, gameVars, settleVars>>

\* ws.on('close'): lines 267-272
WsClose(c) ==
    /\ WsOpen(c)
    /\ LET ref == WsSession(c)
           gid == wsConn[c].gameId
           cn1 == [wsConn EXCEPT ![c].status = "closed"]
           heap1 == [wsHeap EXCEPT ![ref].players = Delete(@, wsConn[c].playerId)]
       IN  /\ wsConn' = cn1
           /\ wsHeap' = heap1
           /\ wsEv' = WsEvent("close", c, wsBroadcastState(wsGames, heap1, cn1, gid), <<>>)
           /\ wsGames' = IF Len(heap1[ref].players) = 0 /\ gid \in DOMAIN wsGames
                         THEN Remove(wsGames, gid) ELSE wsGames
    /\ UNCHANGED <<wsIdCount, gameVars, settleVars>>

NextWs ==
    \/ \E gid \in GameIds, d \in WsIdDraws : WsConnect(gid, d)
    \/ \E c \in WsConns, name \in Names, k \in Batches : WsJoin(c, name, k)
    \/ \E c \in WsConns, pos \in WsMovePos : WsMove(c, pos)
    \/ \E c \in WsConns : WsClose(c)

SpecWs == Init /\ [][NextWs]_vars

\* ============================================================ claims
\* the sum of the scores of a session's live players and live food
Total(g) == SumScores(g.players, 1) + SumScores(g.food, 1)

IsMove(e) == e.op = "move" /\ e.accepted

GameOf(e) == conn[e.conn].gameId

Range(seq) == {seq[i] : i \in 1..Len(seq)}

CallsTo(e, fn) == SelectSeq(e.calls, LAMBDA call : call.fn = fn)

\* C1: a move leaves the sum of the scores of the session's live players and
\* live food unchanged.
C1_ScoreConserved ==
    [][IsMove(ev') => Total(games'[GameOf(ev')]) = Total(games[GameOf(ev')])]_vars

\* C2: once the mover has been eaten in the player pass, no later entry of the
\* pass removes a player, changes a score or issues a ledger call.
C2_StopsWhenEaten ==
    IsMove(ev) =>
        \A i \in 1..Len(ev.cmps) : ~ev.cmps[i].live => ev.cmps[i].outcome = "none"

\* C3: the ledger calls of a move match the entities it removes one to one:
\* one handleFoodEat(score, mover's wallet) per food removed, one
\* handleUserEat(loser's wallet, winner's wallet) per player removed.
C3_CallsMatchRemovals ==
    [][IsMove(ev') =>
        LET gid == GameOf(ev')
            mover == Get(games[gid].players, ev'.playerId)
            goneFood == {f \in Range(games[gid].food) : f.id \notin Ids(games'[gid].food)}
            gonePl == {q \in Range(games[gid].players) : q.id \notin Ids(games'[gid].players)}
            foodCalls == CallsTo(ev', "handleFoodEat")
            userCalls == CallsTo(ev', "handleUserEat")
        IN  /\ Len(foodCalls) = Cardinality(goneFood)
            /\ \A f \in goneFood : \E i \in 1..Len(foodCalls) :
                   /\ foodCalls[i].absoluteVal = numToString(f.score)
                   /\ foodCalls[i].eater = mover.walletAddress
            /\ Len(userCalls) = Cardinality(gonePl)
            /\ \A q \in gonePl : \E i \in 1..Len(userCalls) :
                   userCalls[i].a = q.walletAddress
       ]_vars

MoverLiveAfter(i) ==
    IF i < Len(ev.cmps) THEN ev.cmps[i + 1].live
    ELSE ev.playerId \in Ids(games[GameOf(ev)].players)

\* C4: a comparison of the mover with an overlapping player of exactly equal
\* score removes neither, changes neither score and issues no handleUserEat.
C4_TieRule ==
    IsMove(ev) =>
        /\ \A i \in 1..Len(ev.cmps) :
              (ev.cmps[i].hit /\ ev.cmps[i].pScore = ev.cmps[i].oScore) =>
                  LET pl == games[GameOf(ev)].players
                      o == ev.cmps[i].other
                  IN  /\ o \in Ids(pl)
                      /\ Get(pl, o).score = ev.cmps[i].oScore
                      /\ MoverLiveAfter(i) = ev.cmps[i].live
                      /\ i < Len(ev.cmps) => ev.cmps[i + 1].pScore = ev.cmps[i].pScore
                      /\ (i = Len(ev.cmps) /\ ev.cmps[i].live) =>
                            Get(pl, ev.playerId).score = ev.cmps[i].pScore
        /\ Len(CallsTo(ev, "handleUserEat")) =
              Cardinality({i \in 1..Len(ev.cmps) :
                  ev.cmps[i].hit /\ ev.cmps[i].pScore # ev.cmps[i].oScore})

C4_Witness ==
    /\ IsMove(ev)
    /\ \E i \in 1..Len(ev.cmps) :
          ev.cmps[i].hit /\ ev.cmps[i].pScore = ev.cmps[i].oScore /\ ev.cmps[i].pScore > 0

FoodGain(gid) ==
    SumScores(games[gid].food, 1) - SumScores(games'[gid].food, 1)

\* C5: the food pass is complete before the first player comparison, and the
\* comparisons (radius and score test) use the mover's score after the food of
\* this move: a mover below an overlapping opponent before the move and above
\* it after the food eats the opponent.
C5_FoodBeforePlayers ==
    [][IsMove(ev') =>
        LET gid == GameOf(ev')
            before == Get(games[gid].players, ev'.playerId)
            grown == before.score + FoodGain(gid)
        IN  Len(ev'.cmps) > 0 =>
              LET c1 == ev'.cmps[1]
                  o == Get(games[gid].players, c1.other)
              IN  /\ c1.pScore = grown
                  /\ \A i \in 1..Len(ev'.cmps) : ev'.cmps[i].pScore >= grown
                  /\ (before.score < o.score /\ grown > o.score
                        /\ DistLess([x |-> ev'.pos[1], y |-> ev'.pos[2]], o,
                                    playerRadius(grown) + playerRadius(o.score)))
                     => /\ o.id \notin Ids(games'[gid].players)
                        /\ c1.outcome = "moverEats"
       ]_vars

C5_Witness ==
    /\ IsMove(ev)
    /\ Len(CallsTo(ev, "handleFoodEat")) > 0
    /\ Len(ev.cmps) > 0
    /\ ev.cmps[1].outcome = "moverEats"
    /\ ev.cmps[1].oScore > 0
    /\ ev.playerId \in Ids(games[GameOf(ev)].players)
    /\ LET me == Get(games[GameOf(ev)].players, ev.playerId)
       IN  \E f \in 1..MaxFoodScore :
              /\ ev.cmps[1].pScore - f < ev.cmps[1].oScore
              /\ numToString(f) = CallsTo(ev, "handleFoodEat")[1].absoluteVal
              /\ Len(CallsTo(ev, "handleFoodEat")) = 1

\* C6: the registry holds no session without players: the leave of the last
\* player removes the session, and a join on an absent session id starts from
\* empty players and empty food, then filled with 20 fresh food.
C6_NoEmptySession ==
    /\ [](\A gid \in DOMAIN games : Len(games[gid].players) > 0)
    /\ [][(ev'.op = "disconnect" /\ ev'.accepted
              /\ Len(games[conn[ev'.conn].gameId].players) = 1)
          => conn[ev'.conn].gameId \notin DOMAIN games']_vars
    /\ [][(ev'.op = "join" /\ ev'.accepted /\ conn'[ev'.conn].gameId \notin DOMAIN games)
          => LET g == games'[conn'[ev'.conn].gameId]
             IN  /\ Ids(g.players) = {ev'.playerId}
                 /\ Len(g.food) = FoodBatchSize
                 /\ \A f \in Range(g.food) : f.id > idCount]_vars

C6_Witness ==
    /\ ev.op = "join" /\ ev.accepted
    /\ LET g == games[conn[ev.conn].gameId]
       IN  /\ Len(g.players) = 1
           /\ g.players[1].id > 1
           /\ Len(g.food) = FoodBatchSize
           /\ g.food[1].id = g.players[1].id + 1

\* C7: a session holds at most one live player per connection (socketId).
C7_OnePlayerPerSocket ==
    \A gid \in DOMAIN games :
        \A i, j \in 1..Len(games[gid].players) :
            i # j => games[gid].players[i].socketId # games[gid].players[j].socketId

\* C8: each accepted join, each move of an existing player and each leave
\* that removes a player emits the 'state' message exactly once.
C8_OneBroadcast ==
    (ev.op \in {"join", "move", "disconnect"} /\ ev.accepted) => Len(ev.bcasts) = 1

PlayerGone(c) ==
    \A gid \in DOMAIN games : conn[c].playerId \notin Ids(games[gid].players)

\* C9: a move on a connection whose player is in no session changes no
\* session, no closure and no room, and emits no broadcast and no call.
C9_MoveWithoutPlayer ==
    [][(ev'.op = "move" /\ PlayerGone(ev'.conn))
       => /\ games' = games /\ conn' = conn /\ rooms' = rooms
          /\ ev'.calls = <<>> /\ ev'.bcasts = <<>>]_vars

C9_Witness ==
    /\ ev.op = "move"
    /\ conn[ev.conn].playerId # NoPlayer
    /\ PlayerGone(ev.conn)
    /\ conn[ev.conn].gameId \in DOMAIN games

\* C10: a join whose walletAddress is missing or empty changes no session, no
\* closure and no room, and emits no broadcast.
C10_JoinWithoutWallet ==
    [][\A c \in Conns, gid \in GameIds, name \in Names, k \in Batches :
         \A w \in {Undefined, ""} :
            Join(c, gid, name, w, k)
            => /\ games' = games /\ conn' = conn /\ rooms' = rooms
               /\ ev'.calls = <<>> /\ ev'.bcasts = <<>>]_vars

C10_Witness ==
    /\ ev.op = "join" /\ ~ev.accepted
    /\ conn[ev.conn].playerId # NoPlayer
    /\ conn[ev.conn].gameId \in DOMAIN games

FoodOf(gs, gid) == IF gid \in DOMAIN gs THEN gs[gid].food ELSE <<>>

JoinAccepted(e) == e.op = "join" /\ e.accepted

\* C11: food is created only by a join that finds the session's food set
\* empty, which adds exactly 20 items with scores in 1..10; a join on a
\* session with food leaves the food unchanged; a session never holds more
\* than 20 food items.
C11_FoodOnlyOnEmptyJoin ==
    /\ [](\A gid \in DOMAIN games : Len(games[gid].food) <= FoodBatchSize)
    /\ [][\A gid \in GameIds :
            LET fb == FoodOf(games, gid)
                fa == FoodOf(games', gid)
                new == {f \in Range(fa) : f.id \notin Ids(fb)}
                joined == JoinAccepted(ev') /\ conn'[ev'.conn].gameId = gid
            IN  /\ new # {} =>
                      /\ joined /\ Len(fb) = 0
                      /\ Cardinality({f.id : f \in new}) = FoodBatchSize
                      /\ \A f \in new : f.score \in 1..MaxFoodScore
                /\ (joined /\ Len(fb) = 0) => Len(fa) = FoodBatchSize
                /\ (joined /\ Len(fb) # 0) => fa = fb]_vars

\* a join respawned the food of a session that other players had emptied
C11_Witness ==
    /\ JoinAccepted(ev)
    /\ LET g == games[conn[ev.conn].gameId]
       IN  /\ Len(g.players) >= 2
           /\ g.players[1].score > 0
           /\ Len(g.food) = FoodBatchSize
           /\ g.food[1].id = ev.playerId + 1

StepOf(i) == i \in 1..Len(tasks) /\ Len(tasks') = Len(tasks) /\ tasks'[i] # tasks[i]

\* C12: a move applies its mutations and broadcasts with every call it started
\* still to be answered (nothing written to the ledger yet), and the later steps
\* and outcome of a call (ok, rejected, failed) leave every session's players,
\* scores and food, and what was broadcast, unchanged, and start no new call.
C12_SettlementDecoupled ==
    /\ [][Len(tasks') > Len(tasks) =>
            /\ IsMove(ev') /\ ev'.calls # <<>> /\ Len(ev'.bcasts) >= 1
            /\ games' # games
            /\ ledger' = ledger
            /\ SubSeq(tasks', 1, Len(tasks)) = tasks
            /\ \A i \in (Len(tasks) + 1)..Len(tasks') :
                  tasks'[i].pc # "done" /\ tasks'[i].out = ""]_vars
    /\ [][\A i \in 1..Len(tasks) : StepOf(i) =>
            games' = games /\ ev' = ev /\ conn' = conn /\ rooms' = rooms]_vars

\* one call was refused or failed, another went through, and the scores stand
C12_Witness ==
    /\ \E i \in 1..Len(tasks) : tasks[i].fn # "fetch" /\ tasks[i].out \in {"caught", "rejected"}
    /\ \E i \in 1..Len(tasks) : tasks[i].fn # "fetch" /\ tasks[i].out = "ok"
    /\ ledger # ledger0
    /\ \E gid \in DOMAIN games : \E k \in 1..Len(games[gid].players) :
          games[gid].players[k].score > 0

\* a run of one call of fn
OnlyCall(fn) == Len(tasks) = 1 /\ tasks[1].fn = fn

\* C13: handleUserEat(a, b) is atomic: in every ledger state during or after
\* the call either both shares are as before, or a's share is 0 and b's share
\* is b's previous share plus a's previous share.
C13_TransferAtomic ==
    OnlyCall("handleUserEat") =>
        LET a == tasks[1].a
            b == tasks[1].b
            sa == getUserInfo(ledger0, a)
            sb == getUserInfo(ledger0, b)
        IN  \/ getUserInfo(ledger, a) = sa /\ getUserInfo(ledger, b) = sb
            \/ getUserInfo(ledger, a) = 0 /\ getUserInfo(ledger, b) = sb + sa

\* the sum of the shares other than the eater's, in ledger l
RECURSIVE OthersTotal(_, _, _)
OthersTotal(l, eater, k) ==
    IF k > Len(l.depositors) THEN 0
    ELSE (IF l.depositors[k] # toLowerCase(eater) THEN l.shares[l.depositors[k]] ELSE 0)
         + OthersTotal(l, eater, k + 1)

\* C14: handleFoodEat with an amount above the sum of the shares of the
\* addresses other than the eater writes nothing: every share is unchanged.
C14_TooMuchRejected ==
    (OnlyCall("handleFoodEat")
       /\ stringToNum(tasks[1].val) > OthersTotal(ledger0, tasks[1].a, 1))
    => ledger.shares = ledger0.shares

\* C15: an accepted handleFoodEat for a food of score amount adds amount to
\* the eater's share and turns every other share s into
\* s * (othersTotal - amount) / othersTotal, truncated; so the sum of the shares
\* does not grow and falls by less than the number of other addresses.
C15_RedistributeExact ==
    (OnlyCall("handleFoodEat") /\ tasks[1].out = "ok") =>
        LET amount == stringToNum(tasks[1].val)
            eater == toLowerCase(tasks[1].a)
            total == OthersTotal(ledger0, eater, 1)
            others == {ledger0.depositors[k] : k \in 1..Len(ledger0.depositors)} \ {eater}
            sum0 == total + getUserInfo(ledger0, eater)
            sum1 == OthersTotal(ledger, eater, 1) + getUserInfo(ledger, eater)
        IN  /\ getUserInfo(ledger, eater) = getUserInfo(ledger0, eater) + amount
            /\ \A o \in others :
                  getUserInfo(ledger, o) = (getUserInfo(ledger0, o) * (total - amount)) \div total
            /\ sum1 <= sum0
            /\ sum0 - sum1 < Cardinality(others) \/ sum0 = sum1

\* C17: handleUserEat(a, b) that reads a share of 0 for a writes nothing and
\* ends in its catch block: all shares unchanged, the call is over and does
\* nothing further.
C17_ZeroShareLoser ==
    [][\A i \in 1..Len(tasks) :
         (StepOf(i) /\ tasks[i].fn = "handleUserEat")
         => /\ tasks[i].pc # "done"
            /\ (tasks[i].pc = "getUserInfo" /\ getUserInfo(ledger, tasks[i].a) = 0)
               => /\ ledger' = ledger
                  /\ tasks'[i].pc = "done" /\ tasks'[i].out = "caught"]_vars

C17_Witness ==
    /\ OnlyCall("handleUserEat")
    /\ tasks[1].out = "caught" /\ tasks[1].err = "has no shares"
    /\ getUserInfo(ledger, tasks[1].b) > 0
    /\ ledger = ledger0

\* the square of the distance between a and b, exact
Distance2(a, b) == (a.x - b.x) * (a.x - b.x) + (a.y - b.y) * (a.y - b.y)

\* the square of radius(s1) + radius(s2), radius(score) = 10 + score
Reach2(s1, s2) == (BaseRadius + s1 + BaseRadius + s2) * (BaseRadius + s1 + BaseRadius + s2)

\* from item k of the food fb on, with the mover at here and of score s when
\* item k is tested: an item is gone (not in left) exactly when it was
\* strictly inside the sum of the radii, and its score was then added to s
RECURSIVE StrictFood(_, _, _, _, _)
StrictFood(fb, left, here, s, k) ==
    IF k > Len(fb) THEN TRUE
    ELSE LET gone == fb[k].id \notin left
         IN  /\ gone <=> Distance2(here, fb[k]) < Reach2(s, fb[k].score)
             /\ StrictFood(fb, left, here, IF gone THEN s + fb[k].score ELSE s, k + 1)

\* C16: a move removes a food item, or settles a comparison with a player of
\* another score, if and only if the distance is strictly below the sum of the
\* radii (10 + score each) at the time of the test: at a distance equal to
\* the sum nothing is removed and no score changes.
C16_StrictOverlap ==
    [][IsMove(ev') =>
         LET gid == GameOf(ev')
             here == [x |-> ev'.pos[1], y |-> ev'.pos[2]]
             before == Get(games[gid].players, ev'.playerId)
             fb == games[gid].food
             left == Ids(games'[gid].food)
         IN  /\ StrictFood(fb, left, here, before.score, 1)
             /\ \A i \in 1..Len(ev'.cmps) :
                   LET c == ev'.cmps[i]
                       o == Get(games[gid].players, c.other)
                   IN  /\ c.outcome # "none" => Distance2(here, o) < Reach2(c.pScore, c.oScore)
                       /\ (Distance2(here, o) < Reach2(c.pScore, c.oScore) /\ c.pScore # c.oScore)
                          => c.outcome # "none"
                       /\ c.outcome = "none" =>
                             /\ o.id \in Ids(games'[gid].players)
                             /\ Get(games'[gid].players, o.id).score = c.oScore]_vars

\* C18: once every connection that sent an accepted join to a session has
\* disconnected, the session is absent from the registry; no player is in a
\* session after the connection that created it has disconnected.
C18_NoOrphans ==
    /\ \A gid \in GameIds :
          (\A c \in DOMAIN conn : conn[c].gameId = gid => conn[c].status = "closed")
          => gid \notin DOMAIN games
    /\ \A gid \in DOMAIN games : \A k \in 1..Len(games[gid].players) :
          conn[games[gid].players[k].socketId].status = "open"

\* C19: in the ws server a player inserted by a connection's join is in the
\* session registered under its game id: the join's broadcast reaches the
\* joiner and shows the player, and every player of an open connection is in
\* the registered session.
C19_JoinIntoRegisteredSession ==
    /\ wsEv.op = "join" =>
          \E k \in 1..Len(wsEv.sent) :
             /\ wsEv.sent[k].to = wsEv.conn
             /\ \E j \in 1..Len(wsEv.sent[k].state.players) :
                   wsEv.sent[k].state.players[j].id = wsConn[wsEv.conn].playerId
    /\ \A r \in 1..Len(wsHeap) : \A k \in 1..Len(wsHeap[r].players) :
          LET gid == wsConn[wsHeap[r].players[k].ws].gameId
          IN  gid \in DOMAIN wsGames /\ wsGames[gid] = r

\* the ledger after the call of task has run from l with no other call in
\* flight and no failed request
RunAlone(l, task) ==
    IF task.fn = "handleUserEat"
    THEN LET share == getUserInfo(l, task.a)
         IN  IF share = 0 THEN l
             ELSE updateUserShare(updateUserShare(l, task.a, 0), task.b, share)
    ELSE IF MixesBigInt(l) THEN l
    ELSE LET deps == getAllDepositors(l)
             t1 == FoodDecide([task EXCEPT !.foodAbs = l.totalDeposits,
                                           !.deps = deps,
                                           !.got = [k \in 1..Len(deps) |-> getUserInfo(l, deps[k])],
                                           !.toRead = {}])
         IN  IF t1.pc = "simulate" THEN updateSharesBatch(l, t1.upd, 1) ELSE l

BothOver ==
    /\ Len(tasks) = 2
    /\ \A i \in 1..2 : tasks[i].pc = "done" /\ tasks[i].err # "request failed"

\* C20: when two settlement calls were in flight and none of their requests
\* failed, the final shares are those of running the two calls one after the
\* other, in one of the two orders.
C20_Serializable ==
    BothOver =>
        \/ ledger = RunAlone(RunAlone(ledger0, tasks[1]), tasks[2])
        \/ ledger = RunAlone(RunAlone(ledger0, tasks[2]), tasks[1])

====
